---------------------------- MODULE Spec2Model ----------------------------
(***************************************************************************)
(* A model of the bilingual dataset encoder (dataset.py) and of the        *)
(* checkpointed training loop (train.py).                                  *)
(*                                                                         *)
(* Three independent parts share the module, each with its own             *)
(* specification; a part's specification keeps the other parts' variables  *)
(* at their idle values.                                                   *)
(*   SpecDataset : one call of BilingualDataset.__getitem__                *)
(*   SpecSplit   : the train/validation split of get_ds                    *)
(*   SpecTrain   : any sequence of runs of train_model against one         *)
(*                 checkpoint directory, each run interruptible            *)
(*   SpecTrainFair : the same runs when every step completes               *)
(* Tensors are sequences; positions are 1-based here and 0-based in the    *)
(* source, which leaves every comparison of two positions unchanged.       *)
(***************************************************************************)
EXTENDS Integers, Sequences, FiniteSets, TLC

VARIABLES
    \* ---- dataset.py: BilingualDataset
    seq_len,          \* self.seq_len
    src_text,         \* src_target_pair['translation'][src_lang], as words
    tgt_text,         \* src_target_pair['translation'][tgt_lang], as words
    enc_input_token,  \* local of __getitem__
    dec_input_token,  \* local of __getitem__
    item,             \* the dict __getitem__ returns
    ds_pc,            \* "call" | "returned" | "ValueError" | "AssertionError"
    \* ---- train.py: get_ds
    ds_raw_len,       \* len(ds_raw)
    perm,             \* the permutation random_split draws
    train_ds_raw,     \* indices of the training subset
    val_ds_raw,       \* indices of the validation subset
    split_pc,         \* "call" | "returned" | "ValueError"
    \* ---- train.py: train_model
    files,            \* checkpoint directory: epoch number -> saved dict
    pc,               \* "idle" | "preload" | "loop" | "batch" | "completed" | ...
    preload,          \* config['preload']
    ckpt_path,        \* <<>> (None) or <<e>>: the file of epoch e
    state,            \* <<>> or <<dict>>: what torch.load returned
    initial_epoch,
    epoch,
    global_step,
    next_epoch,       \* the next value of range(initial_epoch, num_epochs)
    batch_i,          \* batches of train_dataloader consumed in this epoch
    model_params,     \* model.state_dict()
    optimizer_params, \* optimizer.state_dict()
    executed,         \* history: epochs whose body this run entered, in order
    loads             \* history: number of torch.load calls of this run

ds_vars == <<seq_len, src_text, tgt_text, enc_input_token, dec_input_token,
             item, ds_pc>>
split_vars == <<ds_raw_len, perm, train_ds_raw, val_ds_raw, split_pc>>
train_vars == <<files, pc, preload, ckpt_path, state, initial_epoch, epoch,
                next_epoch, global_step, batch_i, model_params, optimizer_params,
                executed, loads>>
vars == <<ds_vars, split_vars, train_vars>>

\* ------------------------------------------------------------------ bounds
MaxWords == 3
MaxSeqLen == 5
MaxN == 5
NumEpochs == 3
NumBatches == 2
MaxSeed == 1

\* ------------------------------------------------------------- tokenizers
\* WordLevelTrainer(special_tokens=["[UNK]","[PAD]","[SOS]","[EOS]"]) gives the
\* special tokens the ids 0..3 in that order, in both tokenizers.
UNK == 0
PAD == 1
SOS == 2
EOS == 3

Words == {"a", "b", "[PAD]"}

\* The two vocabularies are trained on different languages: they agree on the
\* special tokens and differ on ordinary words ("b" is unknown to the target).
tokenizer_src == [vocab |-> [w \in {"a", "b", "[PAD]"} |->
                               CASE w = "a" -> 4 [] w = "b" -> 5 [] OTHER -> PAD],
                  unk |-> UNK]
tokenizer_tgt == [vocab |-> [w \in {"a", "[PAD]"} |->
                               CASE w = "a" -> 5 [] OTHER -> PAD],
                  unk |-> UNK]

\* tokenizer.token_to_id(name) for the special tokens
token_to_id(tok, name) ==
    CASE name = "[UNK]" -> UNK [] name = "[PAD]" -> PAD
      [] name = "[SOS]" -> SOS [] name = "[EOS]" -> EOS

\* tokenizer.encode(text).ids : Whitespace pre-tokenizer, WordLevel model
encode(tok, text) ==
    [k \in 1..Len(text) |->
        IF text[k] \in DOMAIN tok.vocab THEN tok.vocab[text[k]] ELSE tok.unk]

\* self.sos_token / self.eos_token / self.pad_token (dataset.py 17-19)
sos_token == token_to_id(tokenizer_tgt, "[SOS]")
eos_token == token_to_id(tokenizer_tgt, "[EOS]")
pad_token == token_to_id(tokenizer_tgt, "[PAD]")

\* ------------------------------------------------------------ tensor helpers
\* [x] * n : the empty list when n <= 0
Repeat(x, n) == [k \in 1..n |-> x]

\* torch.triu(torch.ones((1,size,size)), diagonal=d).type(torch.int)
triu_ones(size, d) ==
    [i \in 1..size |-> [j \in 1..size |-> IF j - i >= d THEN 1 ELSE 0]]

\* A mutant of casual_mask: the diagonal is masked out too.
casual_mask_strict(size) ==
    LET mask == triu_ones(size, 0)
    IN  [i \in 1..size |-> [j \in 1..size |-> mask[i][j] = 0]]

casual_mask(size) ==
    LET mask == triu_ones(size, 1)
    IN  [i \in 1..size |-> [j \in 1..size |-> mask[i][j] = 0]]

\* (t != pad).int()
not_pad(t, pad) == [j \in 1..Len(t) |-> IF t[j] # pad THEN 1 ELSE 0]

\* int tensor [1,n] & bool tensor [1,n,n], broadcast over rows
and_broadcast(row, m) ==
    [i \in 1..Len(m) |-> [j \in 1..Len(row) |->
        IF row[j] # 0 /\ m[i][j] THEN 1 ELSE 0]]

\* ------------------------------------------------- __getitem__, lines 32-78
enc_num_padding_tokens(n, enc) == n - Len(enc) - 2
dec_num_padding_tokens(n, dec) == n - Len(dec) - 1

\* A mutant of too_long: the boundary (no padding needed) is rejected.
too_long_at_boundary(n, enc, dec) ==
    enc_num_padding_tokens(n, enc) <= 0 \/ dec_num_padding_tokens(n, dec) <= 0

too_long(n, enc, dec) ==
    enc_num_padding_tokens(n, enc) < 0 \/ dec_num_padding_tokens(n, dec) < 0

encoder_input_of(n, enc, sos, eos, pad) ==
    <<sos>> \o enc \o <<eos>> \o Repeat(pad, enc_num_padding_tokens(n, enc))

decoder_input_of(n, dec, sos, pad) ==
    <<sos>> \o dec \o Repeat(pad, dec_num_padding_tokens(n, dec))

\* A mutant of label_of: the end-of-sequence token is put after the padding.
label_eos_last(n, dec, eos, pad) ==
    dec \o Repeat(pad, dec_num_padding_tokens(n, dec)) \o <<eos>>

label_of(n, dec, eos, pad) ==
    dec \o <<eos>> \o Repeat(pad, dec_num_padding_tokens(n, dec))

encoder_mask_of(encoder_input, pad) == not_pad(encoder_input, pad)

decoder_mask_of(decoder_input, pad) ==
    and_broadcast(not_pad(decoder_input, pad), casual_mask(Len(decoder_input)))

NoItem == [encoder_input |-> <<>>, decoder_input |-> <<>>,
           encoder_mask |-> <<>>, decoder_mask |-> <<>>, label |-> <<>>,
           src_text |-> <<>>, tgt_text |-> <<>>]

\* dataset.py line 29 and line 30
enc_tokens(text) == encode(tokenizer_src, text)
dec_tokens(text) == encode(tokenizer_src, text)

Texts == UNION {[1..k -> Words] : k \in 0..MaxWords}

InitDatasetVars ==
    /\ seq_len \in 1..MaxSeqLen
    /\ src_text \in Texts
    /\ tgt_text \in Texts
    /\ enc_input_token = <<>>
    /\ dec_input_token = <<>>
    /\ item = NoItem
    /\ ds_pc = "call"

IdleDatasetVars ==
    /\ seq_len = 1
    /\ src_text = <<>>
    /\ tgt_text = <<>>
    /\ enc_input_token = <<>>
    /\ dec_input_token = <<>>
    /\ item = NoItem
    /\ ds_pc = "idle"

\* BilingualDataset.__getitem__(idx), whole
GetItem ==
    /\ ds_pc = "call"
    /\ LET enc == enc_tokens(src_text)
           dec == dec_tokens(tgt_text)
           encoder_input == encoder_input_of(seq_len, enc, sos_token, eos_token, pad_token)
           decoder_input == decoder_input_of(seq_len, dec, sos_token, pad_token)
           label == label_of(seq_len, dec, eos_token, pad_token)
       IN  /\ enc_input_token' = enc
           /\ dec_input_token' = dec
           /\ IF too_long(seq_len, enc, dec)
              THEN /\ ds_pc' = "ValueError"
                   /\ item' = NoItem
              ELSE IF \/ Len(encoder_input) # seq_len
                      \/ Len(decoder_input) # seq_len
                      \/ Len(label) # seq_len
              THEN /\ ds_pc' = "AssertionError"
                   /\ item' = NoItem
              ELSE /\ ds_pc' = "returned"
                   /\ item' = [encoder_input |-> encoder_input,
                               decoder_input |-> decoder_input,
                               encoder_mask |-> encoder_mask_of(encoder_input, pad_token),
                               decoder_mask |-> decoder_mask_of(decoder_input, pad_token),
                               label |-> label,
                               src_text |-> src_text,
                               tgt_text |-> tgt_text]
    /\ UNCHANGED <<seq_len, src_text, tgt_text>>

\* ------------------------------------------------ get_ds, lines 41-43
\* int(0.9 * n).  The double nearest to 0.9 is slightly above 9/10 and the
\* product is rounded to nearest, so for every n the result is never below an
\* integer that 9n/10 reaches: truncation gives the floor of 9n/10.
train_size(n) == (9 * n) \div 10

\* A mutant of val_size: one example is left out of the validation subset.
val_size_short(n) == IF n - train_size(n) > 0 THEN n - train_size(n) - 1 ELSE 0

val_size(n) == n - train_size(n)

Perms(n) == {p \in [1..n -> 1..n] : \A i, j \in 1..n : p[i] = p[j] => i = j}

\* torch.utils.data.random_split(ds, [a, b]): consecutive slices of a random
\* permutation of the indices; the lengths must add up to len(ds)
random_split_ok(n, a, b) == a + b = n
random_split(p, a, b) ==
    <<{p[k] : k \in 1..a}, {p[k] : k \in (a + 1)..(a + b)}>>

InitSplitVars ==
    /\ ds_raw_len \in 0..MaxN
    /\ perm \in Perms(ds_raw_len)
    /\ train_ds_raw = {}
    /\ val_ds_raw = {}
    /\ split_pc = "call"

IdleSplitVars ==
    /\ ds_raw_len = 0
    /\ perm = <<>>
    /\ train_ds_raw = {}
    /\ val_ds_raw = {}
    /\ split_pc = "idle"

\* get_ds, lines 41-43
Split ==
    /\ split_pc = "call"
    /\ LET train_ds_size == train_size(ds_raw_len)
           val_ds_size == val_size(ds_raw_len)
           parts == random_split(perm, train_ds_size, val_ds_size)
       IN  IF random_split_ok(ds_raw_len, train_ds_size, val_ds_size)
           THEN /\ train_ds_raw' = parts[1]
                /\ val_ds_raw' = parts[2]
                /\ split_pc' = "returned"
           ELSE /\ split_pc' = "ValueError"
                /\ UNCHANGED <<train_ds_raw, val_ds_raw>>
    /\ UNCHANGED <<ds_raw_len, perm>>

\* ------------------------------------------------ train_model
Seeds == 0..MaxSeed
Epochs == 0..(NumEpochs - 1)

NoPreload == [kind |-> "none", epoch |-> 0]
Preloads == {NoPreload, [kind |-> "latest", epoch |-> 0]}
              \cup {[kind |-> "epoch", epoch |-> e] : e \in Epochs}

NoFiles == [e \in {} |-> 0]
SetMax(S) == CHOOSE x \in S : \A y \in S : y <= x

\* config.latest_weights_file_path: the existing checkpoint with the highest
\* epoch number, or None
latest_weights_file_path(dir) ==
    IF DOMAIN dir = {} THEN <<>> ELSE <<SetMax(DOMAIN dir)>>

\* config.get_weights_file_path(config, epoch): the file named by that epoch
get_weights_file_path(e) == <<e>>

\* torch.load(path) returns only for a file that is there
can_load(path, dir) == path # <<>> /\ path[1] \in DOMAIN dir

\* A mutant of found: the existence check is left out.
found_unchecked(path, dir) == path # <<>>

\* line 104: ckpt_path and Path(ckpt_path).exists()
found(path, dir) == path # <<>> /\ path[1] \in DOMAIN dir

\* A mutant of resumed_epoch: the restored epoch is run again.
resumed_epoch_same(st) == st.epoch

\* line 108
resumed_epoch(st) == st.epoch + 1

\* A mutant of resumed_global_step: the recorded step count is ignored.
resumed_global_step_zero(st) == 0

\* line 109
resumed_global_step(st) == st.global_step

\* A mutant of ckpt_file: the file name does not depend on the epoch.
ckpt_file_fixed(e) == 0

\* line 152: model_basename followed by the two-digit epoch number
ckpt_file(e) == e

\* A mutant of in_range: the loop stops one epoch early.
in_range_short(e) == e < NumEpochs - 1

\* line 122: range(initial_epoch, num_epochs) has a next value
in_range(e) == e < NumEpochs

\* model = get_model(...): freshly initialised weights
fresh_model(seed) == [seed |-> seed, steps |-> 0]
\* torch.optim.Adam(model.parameters(), ...)
fresh_optimizer == [steps |-> 0]

\* loss.backward(); optimizer.step(); optimizer.zero_grad()
optimizer_step_model(m) == [m EXCEPT !.steps = @ + 1]
optimizer_step_opt(o) == [o EXCEPT !.steps = @ + 1]

RunLocalsIdle ==
    /\ preload = NoPreload
    /\ ckpt_path = <<>>
    /\ state = <<>>
    /\ initial_epoch = 0
    /\ epoch = 0
    /\ next_epoch = 0
    /\ global_step = 0
    /\ batch_i = 0
    /\ model_params = fresh_model(0)
    /\ optimizer_params = fresh_optimizer
    /\ executed = <<>>
    /\ loads = 0

InitTrainVars ==
    /\ files = NoFiles
    /\ pc = "idle"
    /\ RunLocalsIdle

IdleTrainVars ==
    /\ files = NoFiles
    /\ pc = "off"
    /\ RunLocalsIdle

\* train_model, lines 70-95: a new process builds the model and the optimizer
StartRun ==
    /\ pc \in {"idle", "completed", "interrupted", "FileNotFoundError"}
    /\ \E p \in Preloads, seed \in Seeds :
          /\ preload' = p
          /\ model_params' = fresh_model(seed)
    /\ optimizer_params' = fresh_optimizer
    /\ initial_epoch' = 0
    /\ global_step' = 0
    /\ ckpt_path' = <<>>
    /\ state' = <<>>
    /\ epoch' = 0
    /\ next_epoch' = 0
    /\ batch_i' = 0
    /\ executed' = <<>>
    /\ loads' = 0
    /\ pc' = "preload"
    /\ UNCHANGED files

\* train_model, lines 97-113, and the range object of line 122
Preload ==
    /\ pc = "preload"
    /\ LET path == IF preload.kind = "latest"
                   THEN latest_weights_file_path(files)
                   ELSE get_weights_file_path(preload.epoch)
       IN  IF preload.kind # "none" /\ found(path, files)
           THEN IF can_load(path, files)
                THEN LET st == files[path[1]]
                     IN  /\ ckpt_path' = path
                         /\ state' = <<st>>
                         /\ loads' = loads + 1
                         /\ initial_epoch' = resumed_epoch(st)
                         /\ global_step' = resumed_global_step(st)
                         /\ model_params' = st.model_state_dict
                         /\ optimizer_params' = st.optimizer_state_dict
                         /\ next_epoch' = resumed_epoch(st)
                         /\ pc' = "loop"
                ELSE /\ ckpt_path' = path
                     /\ pc' = "FileNotFoundError"
                     /\ UNCHANGED <<state, loads, initial_epoch, global_step,
                                    model_params, optimizer_params, next_epoch>>
           ELSE /\ ckpt_path' = IF preload.kind # "none" THEN path ELSE <<>>
                /\ next_epoch' = initial_epoch
                /\ pc' = "loop"
                /\ UNCHANGED <<state, loads, initial_epoch, global_step,
                               model_params, optimizer_params>>
    /\ UNCHANGED <<files, preload, epoch, batch_i, executed>>

\* line 122-124: the for statement takes the next epoch, or the loop ends and
\* line 160 closes the writer
LoopHead ==
    /\ pc = "loop"
    /\ IF in_range(next_epoch)
       THEN /\ epoch' = next_epoch
            /\ next_epoch' = next_epoch + 1
            /\ batch_i' = 0
            /\ executed' = Append(executed, next_epoch)
            /\ pc' = "batch"
       ELSE /\ pc' = "completed"
            /\ UNCHANGED <<epoch, next_epoch, batch_i, executed>>
    /\ UNCHANGED <<files, preload, ckpt_path, state, initial_epoch, global_step,
                   model_params, optimizer_params, loads>>

\* lines 125-149: one batch
Batch ==
    /\ pc = "batch"
    /\ batch_i < NumBatches
    /\ model_params' = optimizer_step_model(model_params)
    /\ optimizer_params' = optimizer_step_opt(optimizer_params)
    /\ global_step' = global_step + 1
    /\ batch_i' = batch_i + 1
    /\ UNCHANGED <<files, pc, preload, ckpt_path, state, initial_epoch, epoch,
                   next_epoch, executed, loads>>

\* lines 151-158: torch.save at the end of the epoch
Save ==
    /\ pc = "batch"
    /\ batch_i = NumBatches
    /\ files' = (ckpt_file(epoch) :>
                    [epoch |-> epoch,
                     global_step |-> global_step,
                     model_state_dict |-> model_params,
                     optimizer_state_dict |-> optimizer_params]) @@ files
    /\ pc' = "loop"
    /\ UNCHANGED <<preload, ckpt_path, state, initial_epoch, epoch, next_epoch,
                   global_step, batch_i, model_params, optimizer_params,
                   executed, loads>>

\* The process is killed, or an exception leaves train_model (the ValueError
\* of __getitem__ during a batch): its memory is gone, the directory stays.
Interrupt ==
    /\ pc \in {"preload", "loop", "batch"}
    /\ pc' = "interrupted"
    /\ preload' = NoPreload
    /\ ckpt_path' = <<>>
    /\ state' = <<>>
    /\ initial_epoch' = 0
    /\ epoch' = 0
    /\ next_epoch' = 0
    /\ global_step' = 0
    /\ batch_i' = 0
    /\ model_params' = fresh_model(0)
    /\ optimizer_params' = fresh_optimizer
    /\ executed' = <<>>
    /\ loads' = 0
    /\ UNCHANGED files

\* ------------------------------------------------ specifications
InitDataset == InitDatasetVars /\ IdleSplitVars /\ IdleTrainVars
NextDataset == GetItem /\ UNCHANGED <<split_vars, train_vars>>
SpecDataset == InitDataset /\ [][NextDataset]_vars

InitSplit == IdleDatasetVars /\ InitSplitVars /\ IdleTrainVars
NextSplit == Split /\ UNCHANGED <<ds_vars, train_vars>>
SpecSplit == InitSplit /\ [][NextSplit]_vars

InitTrain == IdleDatasetVars /\ IdleSplitVars /\ InitTrainVars
NextTrain ==
    \/ StartRun /\ UNCHANGED <<ds_vars, split_vars>>
    \/ Preload /\ UNCHANGED <<ds_vars, split_vars>>
    \/ LoopHead /\ UNCHANGED <<ds_vars, split_vars>>
    \/ Batch /\ UNCHANGED <<ds_vars, split_vars>>
    \/ Save /\ UNCHANGED <<ds_vars, split_vars>>
    \/ Interrupt /\ UNCHANGED <<ds_vars, split_vars>>
SpecTrain == InitTrain /\ [][NextTrain]_vars

\* Every batch step and checkpoint write completes: no interruption, and the
\* sequential program always takes its next step.
NextTrainFair ==
    \/ StartRun /\ UNCHANGED <<ds_vars, split_vars>>
    \/ Preload /\ UNCHANGED <<ds_vars, split_vars>>
    \/ LoopHead /\ UNCHANGED <<ds_vars, split_vars>>
    \/ Batch /\ UNCHANGED <<ds_vars, split_vars>>
    \/ Save /\ UNCHANGED <<ds_vars, split_vars>>
SpecTrainFair == InitTrain /\ [][NextTrainFair]_vars /\ WF_vars(NextTrainFair)

\* ------------------------------------------------ claims: the encoder
\* The token sequences as the specification names them.
src_tokens == encode(tokenizer_src, src_text)
tgt_tokens == encode(tokenizer_tgt, tgt_text)

IsLayout(t, n, head, body, mid, pad) ==
    LET h == Len(head)
        b == Len(body)
        m == Len(mid)
    IN  /\ Len(t) = n
        /\ \A k \in 1..h : t[k] = head[k]
        /\ \A k \in 1..b : t[h + k] = body[k]
        /\ \A k \in 1..m : t[h + b + k] = mid[k]
        /\ \A k \in (h + b + m + 1)..n : t[k] = pad

\* C1: whenever the token sequences entering line 32 fit (len(src)+2 <= seq_len
\* and len(tgt)+1 <= seq_len), __getitem__ returns
\* encoder_input = [SOS] ++ src ++ [EOS] ++ PAD*k1, decoder_input = [SOS] ++ tgt
\* ++ PAD*k2 and label = tgt ++ [EOS] ++ PAD*k2, each of length seq_len, label
\* being decoder_input shifted one position left with EOS after the last target
\* token; and the layout gives scenario A of the specification.
C1_Layout ==
    /\ (/\ ds_pc # "call"
        /\ Len(enc_input_token) + 2 <= seq_len
        /\ Len(dec_input_token) + 1 <= seq_len)
       => /\ ds_pc = "returned"
          /\ IsLayout(item.encoder_input, seq_len, <<sos_token>>,
                      enc_input_token, <<eos_token>>, pad_token)
          /\ IsLayout(item.decoder_input, seq_len, <<sos_token>>,
                      dec_input_token, <<>>, pad_token)
          /\ IsLayout(item.label, seq_len, <<>>,
                      dec_input_token, <<eos_token>>, pad_token)
          /\ \A k \in 1..Len(dec_input_token) :
                item.label[k] = item.decoder_input[k + 1]
          /\ item.label[Len(dec_input_token) + 1] = eos_token
    /\ encoder_input_of(10, <<4, 5>>, 1, 2, 0) = <<1, 4, 5, 2, 0, 0, 0, 0, 0, 0>>
    /\ decoder_input_of(10, <<6, 7, 8>>, 1, 0) = <<1, 6, 7, 8, 0, 0, 0, 0, 0, 0>>
    /\ label_of(10, <<6, 7, 8>>, 2, 0) = <<6, 7, 8, 2, 0, 0, 0, 0, 0, 0>>

C1_Witness ==
    /\ ds_pc = "returned"
    /\ Len(enc_input_token) = 2
    /\ Len(dec_input_token) = 3
    /\ seq_len = 5
    /\ item.label[4] = eos_token
    /\ item.label[5] = pad_token

\* C2: encoding raises the too-long error exactly when len(src_tokens)+2 >
\* seq_len or len(tgt_tokens)+1 > seq_len; at the boundary it succeeds; a
\* returned example holds every token (nothing is truncated); and seq_len = 5
\* with 5 target tokens fails.
C2_TooLongIff ==
    /\ ds_pc # "call" =>
          /\ ds_pc \in {"returned", "ValueError"}
          /\ ds_pc = "ValueError" <=>
                \/ Len(src_tokens) + 2 > seq_len
                \/ Len(tgt_tokens) + 1 > seq_len
          /\ ds_pc = "ValueError" <=>
                \/ Len(enc_input_token) + 2 > seq_len
                \/ Len(dec_input_token) + 1 > seq_len
          /\ ds_pc = "returned" =>
                /\ SubSeq(item.encoder_input, 2, Len(enc_input_token) + 1)
                      = enc_input_token
                /\ SubSeq(item.decoder_input, 2, Len(dec_input_token) + 1)
                      = dec_input_token
                /\ SubSeq(item.label, 1, Len(dec_input_token)) = dec_input_token
    /\ too_long(5, <<>>, <<4, 4, 4, 4, 4>>)

C2_Witness ==
    /\ ds_pc = "returned"
    /\ Len(enc_input_token) + 2 = seq_len
    /\ Len(dec_input_token) + 1 = seq_len
    /\ seq_len > 2

\* C3: for a returned example and all positions i, j, decoder_mask[0][i][j] is
\* set iff j <= i and decoder_input[j] != PAD: the element-wise AND of the
\* non-PAD mask of decoder_input and casual_mask(seq_len), where
\* casual_mask(size)[0][i][j] = (j <= i).
C3_DecoderMask ==
    ds_pc = "returned" =>
       \A i, j \in 1..seq_len :
          /\ item.decoder_mask[i][j] \in {0, 1}
          /\ item.decoder_mask[i][j] = 1 <=>
                (j <= i /\ item.decoder_input[j] # pad_token)
          /\ casual_mask(seq_len)[i][j] <=> (j <= i)
          /\ item.decoder_mask[i][j] = 1 <=>
                (/\ not_pad(item.decoder_input, pad_token)[j] = 1
                 /\ casual_mask(seq_len)[i][j])

C3_Witness ==
    /\ ds_pc = "returned"
    /\ seq_len >= 4
    /\ \E i, j \in 1..seq_len :
          /\ j < i
          /\ item.decoder_input[j] = pad_token
          /\ item.decoder_input[i] # pad_token
          /\ item.decoder_mask[i][j] = 0
          /\ item.decoder_mask[i][i] = 1

\* C6: the ids placed in decoder_input and label are tokenizer_tgt's ids for
\* tgt_text, and those in encoder_input are tokenizer_src's ids for src_text.
C6_TargetVocabulary ==
    ds_pc = "returned" =>
       /\ SubSeq(item.encoder_input, 2, Len(src_text) + 1) = src_tokens
       /\ SubSeq(item.decoder_input, 2, Len(tgt_text) + 1) = tgt_tokens
       /\ SubSeq(item.label, 1, Len(tgt_text)) = tgt_tokens

\* ------------------------------------------------ claims: the split
\* round(9n/10), ties to the even integer
RoundTenths(n) ==
    LET q == (9 * n) \div 10
        r == (9 * n) % 10
    IN  IF r > 5 \/ (r = 5 /\ q % 2 = 1) THEN q + 1 ELSE q

IsPartition(n) ==
    /\ train_ds_raw \cap val_ds_raw = {}
    /\ train_ds_raw \cup val_ds_raw = 1..n

\* C9 as stated: the two subsets are disjoint, cover all n indices, and the
\* training subset has round(0.9 * n) elements.
C9_RoundSizes ==
    split_pc = "returned" =>
       /\ IsPartition(ds_raw_len)
       /\ Cardinality(train_ds_raw) = RoundTenths(ds_raw_len)
       /\ Cardinality(val_ds_raw) = ds_raw_len - RoundTenths(ds_raw_len)

\* C9 amended: the two subsets are disjoint, cover all n indices, and the
\* training subset has floor(0.9 * n) elements, the validation subset the rest.
C9_FloorSizes ==
    split_pc # "call" =>
       /\ split_pc = "returned"
       /\ IsPartition(ds_raw_len)
       /\ 10 * Cardinality(train_ds_raw) <= 9 * ds_raw_len
       /\ 9 * ds_raw_len < 10 * (Cardinality(train_ds_raw) + 1)
       /\ Cardinality(val_ds_raw) = ds_raw_len - Cardinality(train_ds_raw)

C9_Witness ==
    /\ split_pc = "returned"
    /\ ds_raw_len = 4
    /\ Cardinality(train_ds_raw) = 3
    /\ Cardinality(val_ds_raw) = 1
    /\ RoundTenths(ds_raw_len) = 4

\* ------------------------------------------------ claims: the training loop
Range(q) == {q[k] : k \in 1..Len(q)}
Running == pc \in {"loop", "batch", "completed"}
BeforeFirstEpoch == pc = "loop" /\ executed = <<>>

\* C4: a run resumed from a checkpoint of epoch e executes e+1 first and no
\* epoch <= e, starts global_step at the recorded value, uses exactly the
\* stored model and optimizer parameters, and loads at most once, before the
\* first batch.
C4_Resume ==
    /\ loads <= 1
    /\ loads = 1 <=> state # <<>>
    /\ pc = "preload" => loads = 0
    /\ state # <<>> =>
          /\ Running
          /\ found(ckpt_path, files)
          /\ state[1] = files[ckpt_path[1]]
          /\ initial_epoch = state[1].epoch + 1
          /\ executed # <<>> => executed[1] = state[1].epoch + 1
          /\ \A k \in 1..Len(executed) : executed[k] > state[1].epoch
          /\ model_params.seed = state[1].model_state_dict.seed
          /\ model_params.steps - state[1].model_state_dict.steps
                = global_step - state[1].global_step
          /\ optimizer_params.steps - state[1].optimizer_state_dict.steps
                = global_step - state[1].global_step
          /\ BeforeFirstEpoch =>
                /\ global_step = state[1].global_step
                /\ model_params = state[1].model_state_dict
                /\ optimizer_params = state[1].optimizer_state_dict

C4_Witness ==
    /\ state # <<>>
    /\ preload.kind = "epoch"
    /\ pc = "batch"
    /\ batch_i = 1
    /\ executed = <<state[1].epoch + 1>>
    /\ global_step = state[1].global_step + 1

\* The epochs a run saved so far
SavedThisRun ==
    IF pc = "batch" THEN Range(executed) \ {epoch}
    ELSE IF pc \in {"loop", "completed"} THEN Range(executed)
    ELSE {}

\* C5 as stated: over any sequence of runs a checkpoint file that exists is
\* never deleted, overwritten or changed.
C5_Immutable ==
    [][\A e \in DOMAIN files : e \in DOMAIN files' /\ files'[e] = files[e]]_vars

\* C5 amended: each end-of-epoch checkpoint goes to the file named by its epoch
\* number; no file is ever deleted; a run never overwrites a file it wrote
\* itself; the only file a step changes is the one of the epoch just finished.
C5_WithinRun ==
    [][/\ DOMAIN files \subseteq DOMAIN files'
       /\ \A e \in SavedThisRun : e \in DOMAIN files /\ files'[e] = files[e]
       /\ files' # files =>
             /\ pc = "batch" /\ batch_i = NumBatches
             /\ epoch \in DOMAIN files'
             /\ files'[epoch].epoch = epoch
             /\ \A e \in DOMAIN files : e # epoch => files'[e] = files[e]
             /\ DOMAIN files' = DOMAIN files \cup {epoch}]_vars

C5_Witness ==
    /\ pc = "loop"
    /\ state = <<>>
    /\ executed = <<0, 1>>
    /\ DOMAIN files = {0, 1, 2}
    /\ files[2].model_state_dict.seed # files[1].model_state_dict.seed

\* C7: a preload request that finds no checkpoint does not fail the run: epoch
\* and global_step stay 0, the fresh parameters stay untouched, and epoch 0 is
\* executed as in a run with no preload request.
C7_NotFound ==
    /\ pc # "FileNotFoundError"
    /\ (preload.kind # "none" /\ state = <<>> /\ Running) =>
          /\ loads = 0
          /\ initial_epoch = 0
          /\ executed # <<>> => executed[1] = 0
          /\ model_params.steps = global_step
          /\ optimizer_params.steps = global_step
          /\ BeforeFirstEpoch =>
                /\ ~found(ckpt_path, files)
                /\ next_epoch = 0
                /\ global_step = 0
                /\ model_params.steps = 0
                /\ optimizer_params = fresh_optimizer

C7_Witness ==
    /\ preload.kind = "epoch"
    /\ preload.epoch = 1
    /\ state = <<>>
    /\ DOMAIN files = {0}
    /\ pc = "batch"
    /\ executed = <<0>>
    /\ global_step = 1

\* The epochs range(initial_epoch, num_epochs) yields
ExpectedEpochs ==
    [k \in 1..(NumEpochs - initial_epoch) |-> initial_epoch + k - 1]

IsPrefix(q, r) == Len(q) <= Len(r) /\ \A k \in 1..Len(q) : q[k] = r[k]

\* C8: when every step completes, a run starting at epoch s (0 when fresh,
\* restored epoch + 1 when resumed) reaches Completed having executed exactly
\* s, s+1, ..., num_epochs-1, each once and in order; none if s >= num_epochs.
C8_Completes ==
    /\ [](Running =>
            /\ state = <<>> => initial_epoch = 0
            /\ state # <<>> => initial_epoch = state[1].epoch + 1
            /\ IsPrefix(executed, ExpectedEpochs)
            /\ pc = "completed" => executed = ExpectedEpochs)
    /\ (pc \in {"preload", "loop", "batch"}) ~> (pc = "completed")

C8_Witness ==
    /\ pc = "completed"
    /\ state # <<>>
    /\ initial_epoch = 1
    /\ executed = <<1, 2>>

\* C10: global_step grows by one per processed batch; every checkpoint file of
\* epoch e records epoch = e and global_step = (e+1)*B; a file is written only
\* when all B batches of the epoch are done; a resumed run counts no batch of
\* an interrupted epoch.
C10_StepCount ==
    /\ [](/\ \A e \in DOMAIN files :
                /\ files[e].epoch = e
                /\ files[e].global_step = (e + 1) * NumBatches
          /\ pc = "batch" => global_step = epoch * NumBatches + batch_i
          /\ pc = "loop" => global_step = next_epoch * NumBatches)
    /\ [][/\ (pc = "batch" /\ pc' = "batch") =>
                /\ batch_i' = batch_i + 1
                /\ global_step' = global_step + 1
          /\ files' # files => (pc = "batch" /\ batch_i = NumBatches)]_vars

C10_Witness ==
    /\ state # <<>>
    /\ pc = "batch"
    /\ epoch = 2
    /\ batch_i = 1
    /\ global_step = 2 * NumBatches + 1
    /\ 2 \in DOMAIN files

=============================================================================
